---- MODULE Spec2Model ----
(***************************************************************************)
(* Process supervision engine of UnrealLocalServerManager                  *)
(* (src/unreal_local_server_manager/main_window.py, core.py).              *)
(*                                                                         *)
(* The GUI thread owns the table of entities (MainWindow.servers) and runs *)
(* every handler to completion, one at a time.  LogReaderThread and        *)
(* StopWorker are QThreads: what they emit reaches the GUI thread as       *)
(* queued calls, in emission order (one FIFO queue of posted events).      *)
(* Two handlers open a nested event loop and are therefore split at that   *)
(* point: _start_server (the "Port In Use" question) and                   *)
(* _shutdown_all_servers (the processEvents wait loop).                    *)
(*                                                                         *)
(* Entities are numbered 1..MaxServers in creation order (ids are fresh    *)
(* uuids, never reused).  Child processes are numbered in spawn order; the *)
(* reader of process p has the same number p.                              *)
(***************************************************************************)
EXTENDS Integers, Sequences, FiniteSets, TLC

\* ------------------------------------------------------------------ bounds
MaxServers == 2      \* entities ever created
MaxStarts  == 2      \* child processes ever spawned
MaxLines   == 1      \* output lines one child writes
MaxApiStops == 1     \* direct stop(id) calls made besides the wired commands
SoloServers == 1     \* entities in the specifications of a single entity
SoloStarts == 1      \* child processes spawned in SpecApi
SoloLines == 2       \* output lines one child writes in SpecLines
LogCap == 3          \* max_lines of the buffer in SpecLog
MaxParams == 2       \* tokens in the custom parameters of a config in SpecPort
MaxChars == 7        \* length of a line in SpecClassify
MaxAppends == 6      \* appends to the buffer in SpecLog

\* ------------------------------------------------------- program constants
MaxLogLines == 8000  \* ServerRuntime.append_log(max_lines=8000)

SIDS == 1..MaxServers
None == 0
Samples == {1}                       \* a nonzero metrics reading

VARIABLES
  servers,       \* MainWindow.servers: id -> ServerRuntime
  nextId,        \* the next fresh entity id
  stop_workers,  \* MainWindow.stop_workers: id -> worker number (None: absent)
  is_closing,    \* MainWindow.is_closing
  saved,         \* the ids of the config list last handed to Store.save
  proc,          \* child processes, in spawn order
  rd,            \* LogReaderThreads, rd[p] reads proc[p]
  wk,            \* StopWorkers, in launch order
  queue,         \* posted events for the GUI thread, FIFO
  ui,            \* where the GUI thread is
  dlg,           \* the entity whose start waits in the port question
  to_stop,       \* servers_to_stop of the running _shutdown_all_servers
  apiStops,      \* direct stop(id) calls made so far
  net,           \* what core.get_private_ip() returns at present
  buf,           \* a log buffer of capacity LogCap, for append_log alone
  resolved,      \* per entity id, the _resolve_public_ip threads that have ended
  launch,        \* a config, with the command line and the port worked out for it
  view           \* a line given to the log view, with its severity

vars == <<servers, nextId, stop_workers, is_closing, saved, proc, rd, wk,
          queue, ui, dlg, to_stop, apiStops, net, buf, resolved, launch, view>>

\* The part of the state the GUI thread's handlers read and write.
Cur == [servers |-> servers, stop_workers |-> stop_workers, saved |-> saved,
        net |-> net,
        is_closing |-> is_closing, proc |-> proc, rd |-> rd, wk |-> wk]

Commit(G) ==
  /\ servers' = G.servers
  /\ stop_workers' = G.stop_workers
  /\ saved' = G.saved
  /\ is_closing' = G.is_closing
  /\ proc' = G.proc
  /\ rd' = G.rd
  /\ wk' = G.wk

Has(G, s) == s \in DOMAIN G.servers

Without(f, s) == [x \in DOMAIN f \ {s} |-> f[x]]

With(f, s, v) == [x \in DOMAIN f \cup {s} |-> IF x = s THEN v ELSE f[x]]

\* ------------------------------------------------------------ data model
\* ServerRuntime(config=cfg): the dataclass defaults.
ServerRuntime ==
  [state |-> "Offline", process |-> None, ps |-> None, reader |-> None,
   cpu_percent |-> 0, mem_mb |-> 0, log_lines |-> <<>>, btn_enabled |-> TRUE,
   private_ip |-> "Unknown", public_ip |-> "Unknown", last_started_ts |-> 0,
   row_cpu |-> 0, row_mem |-> 0]

\* An append_log that puts the new entry first
append_log_Front(log_lines, text, max_lines) ==
  LET l == <<text>> \o log_lines
  IN IF Len(l) > max_lines
       THEN SubSeq(l, Len(l) - max_lines + 1, Len(l))
       ELSE l

\* An append_log that never trims the buffer
append_log_Unbounded(log_lines, text, max_lines) ==
  Append(log_lines, text)

\* ServerRuntime.append_log
append_log(log_lines, text, max_lines) ==
  LET l == Append(log_lines, text)
  IN IF Len(l) > max_lines
       THEN SubSeq(l, Len(l) - max_lines + 1, Len(l))
       ELSE l

\* A child process that exited with code rc
Ended(pr, rc) == [pr EXCEPT !.alive = FALSE, !.rc = rc]

\* Popen.is_running() of a process handle
is_running(G, p) == p # None /\ G.proc[p].alive

\* An _update_row that shows the fields whatever the state is
update_row_ShowsFields(G, srv) ==
  LET shown == [srv EXCEPT !.row_cpu = srv.cpu_percent, !.row_mem = srv.mem_mb]
  IN IF srv.state # "Stopping" THEN [shown EXCEPT !.btn_enabled = TRUE] ELSE shown

\* _update_row: the CPU and memory cells of the row (row_cpu, row_mem) and
\* the start/stop button.
update_row(G, srv) ==
  LET live == srv.state = "Running" /\ is_running(G, srv.ps)
      shown == [srv EXCEPT !.row_cpu = IF live THEN srv.cpu_percent ELSE 0,
                           !.row_mem = IF live THEN srv.mem_mb ELSE 0]
  IN IF srv.state # "Stopping"
       THEN [shown EXCEPT !.btn_enabled = TRUE]
       ELSE shown

\* ------------------------------------------------- handlers (GUI thread)
\* Each handler is a function from the GUI thread's view of the state to the
\* view it leaves; s is the server_id the handler was called with.

\* A really_delete that does not call _save_all
really_delete_NoSave(G, s) == [G EXCEPT !.servers = Without(G.servers, s)]

\* really_delete, the closure of _delete_server (with _save_all)
really_delete(G, s) ==
  LET left == Without(G.servers, s)
  IN [G EXCEPT !.servers = left, !.saved = DOMAIN left]

\* on_done of _stop_server: None, or really_delete of _delete_server
on_done(G, s, od) == IF od = "delete" THEN really_delete(G, s) ELSE G

\* _stop_finalize, the writes to the record
Finalized(srv) ==
  [srv EXCEPT !.state = "Stopped", !.process = None, !.ps = None,
              !.cpu_percent = 0, !.mem_mb = 0]

\* A _stop_finalize that empties the registry of stop workers
stop_finalize_ClearsAll(G, s, od) ==
  LET G1 == [G EXCEPT !.stop_workers = [x \in DOMAIN G.stop_workers |-> None]]
  IN IF ~Has(G1, s)
       THEN on_done(G1, s, od)
       ELSE LET srv == update_row(G1, [Finalized(G1.servers[s]) EXCEPT !.btn_enabled = TRUE])
            IN on_done([G1 EXCEPT !.servers[s] = srv], s, od)

\* A _stop_finalize that forgets its on_done
stop_finalize_DropsOnDone(G, s, od) ==
  LET G1 == [G EXCEPT !.stop_workers[s] = None]
  IN IF ~Has(G1, s)
       THEN G1
       ELSE LET srv == update_row(G1, [Finalized(G1.servers[s]) EXCEPT !.btn_enabled = TRUE])
            IN [G1 EXCEPT !.servers[s] = srv]

\* _stop_finalize
stop_finalize(G, s, od) ==
  LET G1 == [G EXCEPT !.stop_workers[s] = None]
  IN IF ~Has(G1, s)
       THEN on_done(G1, s, od)
       ELSE LET srv == update_row(G1, [Finalized(G1.servers[s]) EXCEPT !.btn_enabled = TRUE])
            IN on_done([G1 EXCEPT !.servers[s] = srv], s, od)

\* A LogReaderThread whose run() has returned: its stop flag is never read
\* again.
ReaderDone == [pc |-> "done", stop |-> FALSE, read |-> 0]

\* LogReaderThread.stop
reader_stop(r) == IF r.pc = "done" THEN r ELSE [r EXCEPT !.stop = TRUE]

\* _stop_server: srv.reader.stop().  The connection it adds to the reader's
\* finished signal calls _reader_gone, which _start_server connected
\* already, once more: the two calls are posted together and the second
\* finds nothing to do, so one posted call stands for both.
RequestReaderStop(G, s) ==
  LET r == G.servers[s].reader
  IN IF r # None
       THEN [G EXCEPT !.rd[r] = reader_stop(@)]
       ELSE G

\* A _stop_server that never creates its stop worker
LaunchStopWorker_Never(G, s, od) == G

\* _stop_server: worker = StopWorker(server_id, srv.process); register; start
LaunchStopWorker(G, s, od) ==
  LET w == [s |-> s, p |-> G.servers[s].process, pc |-> "signal", od |-> od]
  IN [G EXCEPT !.wk = Append(@, w), !.stop_workers[s] = Len(G.wk) + 1]

\* A _stop_server that returns without finalizing when there is no process
stop_server_NoFinalize(G, s, od) ==
  IF ~Has(G, s)
    THEN G
    ELSE LET G0 == [G EXCEPT !.servers[s].state = "Stopping"]
             G1 == [G0 EXCEPT !.servers[s] =
                      [update_row(G0, @) EXCEPT !.btn_enabled = FALSE]]
             G2 == RequestReaderStop(G1, s)
         IN IF G2.servers[s].process = None
              THEN G2
              ELSE LaunchStopWorker(G2, s, od)

\* _stop_server
stop_server(G, s, od) ==
  IF ~Has(G, s)
    THEN G
    ELSE LET G0 == [G EXCEPT !.servers[s].state = "Stopping"]
             G1 == [G0 EXCEPT !.servers[s] =
                      [update_row(G0, @) EXCEPT !.btn_enabled = FALSE]]
             G2 == RequestReaderStop(G1, s)
         IN IF G2.servers[s].process = None
              THEN stop_finalize(G2, s, od)
              ELSE LaunchStopWorker(G2, s, od)

\* _reader_gone
reader_gone(G, s) ==
  IF Has(G, s) /\ G.servers[s].reader # None
    THEN [G EXCEPT !.servers[s].reader = None]
    ELSE G

\* _on_log_line
on_log_line(G, s, line) ==
  IF ~Has(G, s)
    THEN G
    ELSE LET srv == G.servers[s]
             s1 == IF srv.state = "Starting"
                     THEN update_row(G, [srv EXCEPT !.state = "Running"])
                     ELSE srv
         IN [G EXCEPT !.servers[s] =
               [s1 EXCEPT !.log_lines = append_log(@, line, MaxLogLines)]]

\* _on_process_finished, the writes to the record
Exited(srv, rc) ==
  [srv EXCEPT !.state = "Stopped",
              !.log_lines = append_log(@, <<"exited", rc>>, MaxLogLines)]

\* _on_process_finished
on_process_finished(G, s, rc) ==
  IF ~Has(G, s)
    THEN G
    ELSE [G EXCEPT !.servers[s] = update_row(G, Exited(G.servers[s], rc))]

\* A _start_server guard without the is_running() test
start_refused_NoLiveTest(G, s) == ~Has(G, s)

\* _start_server: the guard that makes a start a no-op
start_refused(G, s) ==
  \/ ~Has(G, s)
  \/ is_running(G, G.servers[s].process)

\* _start_server: srv.private_ip = get_private_ip(), once the executable
\* was found
start_probe(G, s) == [G EXCEPT !.servers[s].private_ip = G.net]

\* A _start_server that refreshes the address before it looks for the
\* executable
start_checked_ProbesFirst(G, s, exeOK) ==
  IF start_refused(G, s) THEN G ELSE start_probe(G, s)

\* _start_server down to the port check: the guard, the search for the
\* executable (exeOK: it was found), the refresh of the address
start_checked(G, s, exeOK) ==
  IF start_refused(G, s) \/ ~exeOK THEN G ELSE start_probe(G, s)

\* _start_server: psutil.Popen(...) and LogReaderThread(...).start()
Spawned(G, s) ==
  [G EXCEPT
     !.proc = Append(@, [s |-> s, alive |-> TRUE, rc |-> 0,
                         out |-> 0, closed |-> FALSE]),
     !.rd = Append(@, [pc |-> "reading", stop |-> FALSE, read |-> 0])]

\* A _start_server that writes no Started line to the log
Started_Silent(srv, s, p) ==
  [srv EXCEPT !.process = p, !.ps = p, !.state = "Starting",
              !.last_started_ts = p,
              !.reader = p]

\* _start_server: the writes to the record after a successful spawn
Started(srv, s, p) ==
  [srv EXCEPT !.process = p, !.ps = p, !.state = "Starting",
              !.log_lines = append_log(@, <<"started", s>>, MaxLogLines),
              !.last_started_ts = p,
              !.reader = p]

\* _start_server from self._update_row(server_id) (after the port check) on.
\* srv is the local of _start_server: the record is written even when the
\* entity left the table while the port question was open.
start_spawn(G, s, spawnOK) ==
  LET G1 == IF Has(G, s)
              THEN [G EXCEPT !.servers[s] = update_row(G, @)]
              ELSE G
      p == Len(G.proc) + 1
      G2 == Spawned(G1, s)
  IN IF ~spawnOK
       THEN G1
       ELSE IF Has(G2, s)
              THEN [G2 EXCEPT !.servers[s] = update_row(G2, Started(@, s, p))]
              ELSE G2

\* A _start_server that goes on whatever the answer to the port question is
port_answered_IgnoresNo(G, s, yes, spawnOK) == start_spawn(G, s, spawnOK)

\* _start_server once the port question is answered: if ans != Yes: return
port_answered(G, s, yes, spawnOK) ==
  IF yes THEN start_spawn(G, s, spawnOK) ELSE G

\* _delete_server
delete_server(G, s) ==
  IF ~Has(G, s)
    THEN G
    ELSE IF G.servers[s].state \in {"Running", "Starting"}
           THEN stop_server(G, s, "delete")
           ELSE really_delete(G, s)

\* A sampler that reaps an entity whose process is found dead
Sampled_ReapsDead(G, srv, outcome, v) ==
  IF is_running(G, srv.ps) /\ srv.state = "Running"
    THEN update_row(G,
           CASE outcome = "ok" -> [srv EXCEPT !.cpu_percent = v, !.mem_mb = v]
             [] outcome = "cpu_fail" -> srv
             [] OTHER -> [srv EXCEPT !.cpu_percent = v])
    ELSE IF srv.state # "Running"
           THEN update_row(G, [srv EXCEPT !.cpu_percent = 0, !.mem_mb = 0])
           ELSE [srv EXCEPT !.state = "Stopped", !.process = None, !.ps = None]

\* _refresh_metrics, one entity; outcome is how the psutil sample went
Sampled(G, srv, outcome, v) ==
  IF is_running(G, srv.ps) /\ srv.state = "Running"
    THEN update_row(G,
           CASE outcome = "ok" -> [srv EXCEPT !.cpu_percent = v, !.mem_mb = v]
             [] outcome = "cpu_fail" -> srv
             [] OTHER -> [srv EXCEPT !.cpu_percent = v])
    ELSE IF srv.state # "Running"
           THEN update_row(G, [srv EXCEPT !.cpu_percent = 0, !.mem_mb = 0])
           ELSE srv

\* _refresh_metrics
refresh_metrics(G, outcomes, v) ==
  IF G.is_closing
    THEN G
    ELSE [G EXCEPT !.servers =
            [s \in DOMAIN G.servers |-> Sampled(G, G.servers[s], outcomes[s], v)]]

\* CPython dicts iterate in insertion order, and ids are handed out in
\* increasing order: the entities of S in the order self.servers holds them.
RECURSIVE InOrder(_)
InOrder(S) ==
  IF S = {} THEN <<>>
  ELSE LET m == CHOOSE x \in S : \A y \in S : x <= y
       IN <<m>> \o InOrder(S \ {m})

\* _shutdown_all_servers: servers_to_stop
servers_to_stop(G) ==
  InOrder({s \in DOMAIN G.servers : G.servers[s].state \in {"Running", "Starting"}})

\* _shutdown_all_servers: for sid in servers_to_stop: self._stop_server(sid)
RECURSIVE StopEach(_, _)
StopEach(G, list) ==
  IF list = <<>> THEN G
  ELSE StopEach(stop_server(G, Head(list), "none"), Tail(list))

\* _shutdown_all_servers up to the wait loop (or to the early return)
shutdown_begin(G) ==
  LET idle == {s \in DOMAIN G.servers :
                 /\ G.servers[s].state \notin {"Running", "Starting"}
                 /\ G.servers[s].reader # None}
      told == {G.servers[s].reader : s \in idle}
      G1 == [G EXCEPT !.is_closing = TRUE,
                      !.rd = [r \in DOMAIN G.rd |->
                                IF r \in told THEN reader_stop(G.rd[r])
                                ELSE G.rd[r]]]
  IN StopEach(G1, servers_to_stop(G))

\* _shutdown_all_servers: the exit test of the wait loop
all_stopped(G, list) ==
  \A i \in 1..Len(list) :
     Has(G, list[i]) => G.servers[list[i]].state \in {"Stopped", "Offline"}

\* _shutdown_all_servers after the wait loop: force kill, reader and worker
\* clean-up
shutdown_finish(G) ==
  LET hit == {G.servers[s].process : s \in
                {x \in DOMAIN G.servers : is_running(G, G.servers[x].process)}}
      told == {G.servers[s].reader : s \in DOMAIN G.servers} \ {None}
  IN [G EXCEPT
        !.proc = [p \in DOMAIN G.proc |->
                    IF p \in hit
                      THEN Ended(G.proc[p], 1)
                      ELSE G.proc[p]],
        !.rd = [r \in DOMAIN G.rd |->
                  IF r \in told THEN reader_stop(G.rd[r])
                  ELSE G.rd[r]],
        !.servers = [s \in DOMAIN G.servers |->
                       [G.servers[s] EXCEPT !.reader = None]],
        !.stop_workers = [s \in SIDS |-> None]]

\* ------------------------------------------------------- posted events
Event(k, s, p, x, od) == [k |-> k, s |-> s, p |-> p, x |-> x, od |-> od]

\* The text a line event carries: line x of the output of run p
LineText(e) == <<"out", e.p, e.x>>

\* The slot each signal is connected to (_start_server, _stop_server).
Dispatch(G, e) ==
  CASE e.k = "line" -> on_log_line(G, e.s, LineText(e))
    [] e.k = "finished" -> on_process_finished(G, e.s, e.x)
    [] e.k = "gone" -> reader_gone(G, e.s)
    [] OTHER -> stop_finalize(G, e.s, e.od)

\* ---------------------------------------------------------------- Init
\* MainWindow.__init__ with _restore_saved_servers: the entities restored
\* from the store are Offline; nothing runs.
\* ------------------------------------------ command line and port (core)
\* Port numbers a config or a parameter may name
Ports == {1, 2}

\* The tokens of custom_params: a name and, for the port flags, the text
\* after the "=" as the number its leading digits spell, <<>> when it
\* starts with no digit ("-Port=", "-Port=abc")
Tokens ==
  [name : {"-Port=", "-NetPort="}, val : {<<>>} \cup {<<n>> : n \in Ports}]
    \cup {[name |-> "-log", val |-> <<>>]}

\* ServerConfig, the fields the command line and the port depend on
ServerConfig ==
  [port : Ports,
   custom_params : UNION {[1..n -> Tokens] : n \in 0..MaxParams}]

\* build_command: "-port=" in params_lower or "-netport=" in params_lower
IsPortFlag(tok) == tok.name \in {"-Port=", "-NetPort="}

\* effective_port: the pattern -(?:Port|NetPort)=(\d+) matches the token
HasPort(tok) == IsPortFlag(tok) /\ tok.val # <<>>

\* The positions of a token list where the pattern matches
Matches(toks) == {i \in DOMAIN toks : HasPort(toks[i])}

\* core.effective_port: re.search takes the leftmost match
effective_port(cfg) ==
  LET hits == Matches(cfg.custom_params)
  IN IF hits = {}
       THEN cfg.port
       ELSE cfg.custom_params[CHOOSE i \in hits : \A j \in hits : i <= j].val[1]

\* core.build_command, from "-server" on: the executable and the project
\* path carry no port
build_command(cfg) ==
  LET flagged == \E i \in DOMAIN cfg.custom_params :
                   IsPortFlag(cfg.custom_params[i])
      own == IF flagged THEN <<>>
             ELSE <<[name |-> "-Port=", val |-> <<cfg.port>>]>>
  IN <<[name |-> "-server", val |-> <<>>]>> \o own \o cfg.custom_params

\* _start_server: eport = effective_port(srv.config) and
\* cmd = build_command(srv.config)
Launch(cfg) ==
  [cfg |-> cfg, cmd |-> build_command(cfg), port |-> effective_port(cfg)]

\* -------------------------------------------------- log severity (core)
\* What a line is made of: the words Error and Warning as the engine
\* writes them, the colon, the blank, and any other text
Chars == {"Error", "Warning", ":", " ", "x"}

\* str.lower(), character by character
Lower(line) ==
  [i \in DOMAIN line |->
     CASE line[i] = "Error" -> "error"
       [] line[i] = "Warning" -> "warning"
       [] OTHER -> line[i]]

\* marker in low
Contains(low, marker) ==
  \E i \in 0..(Len(low) - Len(marker)) :
    SubSeq(low, i + 1, i + Len(marker)) = marker

\* low.startswith(marker)
StartsWith(low, marker) ==
  Len(low) >= Len(marker) /\ SubSeq(low, 1, Len(marker)) = marker

\* ": word:" in low or " word: " in low or low.startswith("word:")
Marked(low, word) ==
  \/ Contains(low, <<":", " ", word, ":">>)
  \/ Contains(low, <<" ", word, ":", " ">>)
  \/ StartsWith(low, <<word, ":">>)

\* A classify_log_line that looks for the warning markers first
classify_log_line_WarningFirst(line) ==
  LET low == Lower(line)
  IN IF Marked(low, "warning") THEN "warning"
     ELSE IF Marked(low, "error") THEN "error"
     ELSE "info"

\* core.classify_log_line
classify_log_line(line) ==
  LET low == Lower(line)
  IN IF Marked(low, "error") THEN "error"
     ELSE IF Marked(low, "warning") THEN "warning"
     ELSE "info"

\* _insert_colored_line: severity = self._classify_line(line)
Shown(line) == [line |-> line, severity |-> classify_log_line(line)]

Init ==
  \E k \in 0..MaxServers :
    /\ net = "lan"
    /\ buf = <<>>
    /\ resolved = [s \in SIDS |-> 0]
    /\ view = Shown(<<>>)
    /\ launch = Launch([port |-> CHOOSE n \in Ports : TRUE, custom_params |-> <<>>])
    /\ servers = [s \in {x \in SIDS : x <= k} |->
                    [ServerRuntime EXCEPT !.private_ip = net]]
    /\ nextId = k + 1
    /\ saved = {s \in SIDS : s <= k}
    /\ stop_workers = [s \in SIDS |-> None]
    /\ is_closing = FALSE
    /\ proc = <<>>
    /\ rd = <<>>
    /\ wk = <<>>
    /\ queue = <<>>
    /\ ui = "idle"
    /\ dlg = None
    /\ to_stop = <<>>
    /\ apiStops = 0

Gui == <<servers, stop_workers, saved, is_closing, proc, rd, wk>>

\* ------------------------------------------------- the child processes
\* Children and threads are followed until _shutdown_all_servers returns:
\* closeEvent then runs to the exit of the application without a wait.
Live == ui \notin {"returned", "closed"}

\* A child writes a line to its stdout pipe.
ProcWrite(p) ==
  /\ Live
  /\ proc[p].alive /\ ~proc[p].closed /\ proc[p].out < MaxLines
  /\ proc' = [proc EXCEPT ![p].out = @ + 1]
  /\ UNCHANGED <<servers, nextId, stop_workers, is_closing, saved, rd, wk,
                 queue, ui, dlg, to_stop, apiStops, net, buf, resolved, launch, view>>

\* A child exits by itself, at any time.
ProcExit(p) ==
  /\ Live
  /\ proc[p].alive
  /\ proc' = [proc EXCEPT ![p] = Ended(@, 0)]
  /\ UNCHANGED <<servers, nextId, stop_workers, is_closing, saved, rd, wk,
                 queue, ui, dlg, to_stop, apiStops, net, buf, resolved, launch, view>>

\* ------------------------------------------------ LogReaderThread.run
\* for line in self.popen.stdout: if self._stop.is_set(): break; emit
ReaderRead(p) ==
  /\ Live
  /\ rd[p].pc = "reading" /\ ~proc[p].closed /\ rd[p].read < proc[p].out
  /\ IF rd[p].stop
       THEN /\ rd' = [rd EXCEPT ![p].read = @ + 1, ![p].pc = "waiting"]
            /\ queue' = queue
       ELSE /\ rd' = [rd EXCEPT ![p].read = @ + 1]
            /\ queue' = Append(queue,
                 Event("line", proc[p].s, p, rd[p].read + 1, "none"))
  /\ UNCHANGED <<servers, nextId, stop_workers, is_closing, saved, proc, wk,
                 ui, dlg, to_stop, apiStops, net, buf, resolved, launch, view>>

\* The child as it is once its reader has collected the exit status: what
\* it wrote, how it exited and whether its stream is closed is read by
\* nobody else.
Reaped(pr) == [pr EXCEPT !.rc = 0, !.out = 0, !.closed = TRUE]

\* A run() whose process_finished is never emitted
LastWords_NoFinished(p) ==
  queue \o <<Event("gone", proc[p].s, p, 0, "none")>>

\* What run() emits on its way out: process_finished from the finally
\* block, then QThread's finished (connected to _reader_gone).
LastWords(p) ==
  queue \o <<Event("finished", proc[p].s, p, proc[p].rc, "none"),
             Event("gone", proc[p].s, p, 0, "none")>>

\* The loop ends (end of stream, or the stream was closed under the read)
\* and popen.wait() returns at once when the child has exited already.
ReaderEnd(p) ==
  /\ Live
  /\ rd[p].pc = "reading"
  /\ proc[p].closed \/ (~proc[p].alive /\ rd[p].read = proc[p].out)
  /\ IF proc[p].alive
       THEN /\ rd' = [rd EXCEPT ![p].pc = "waiting"]
            /\ queue' = queue
       ELSE /\ rd' = [rd EXCEPT ![p] = ReaderDone]
            /\ queue' = LastWords(p)
  /\ proc' = IF proc[p].alive THEN proc ELSE [proc EXCEPT ![p] = Reaped(@)]
  /\ UNCHANGED <<servers, nextId, stop_workers, is_closing, saved, wk,
                 ui, dlg, to_stop, apiStops, net, buf, resolved, launch, view>>

\* finally: rc = self.popen.wait() returns when the child exits
ReaderFinish(p) ==
  /\ Live
  /\ rd[p].pc = "waiting" /\ ~proc[p].alive
  /\ rd' = [rd EXCEPT ![p] = ReaderDone]
  /\ queue' = LastWords(p)
  /\ proc' = [proc EXCEPT ![p] = Reaped(@)]
  /\ UNCHANGED <<servers, nextId, stop_workers, is_closing, saved, wk,
                 ui, dlg, to_stop, apiStops, net, buf, resolved, launch, view>>

\* ------------------------------------------------------ StopWorker.run
\* The platform branch of StopWorker.run: core.program_saved_dir only
\* finds a directory on Windows, so the window exists on Windows only.
IsWindows == TRUE

\* A termination request reaches a child.  heeded: the child gives way to
\* it and is gone when the bounded wait after the request returns; a child
\* that does not heed it is still there when the wait times out.
Request(p, heeded) ==
  IF proc[p].alive /\ heeded
    THEN [proc EXCEPT ![p] = Ended(@, 1)]
    ELSE proc

\* A run() that skips the close when it finds the child gone
NextTier_SkipsClose(P, p, tier) == IF P[p].alive THEN tier ELSE "emit"

\* Where run() goes next: a tier is tried only while is_running().
NextTier(P, p, tier) == IF P[p].alive THEN tier ELSE "close"

\* send_signal(CTRL_BREAK_EVENT); wait(timeout=7)
WorkerSignal(w) ==
  /\ Live
  /\ wk[w].pc = "signal"
  /\ \E heeded \in BOOLEAN :
       proc' = IF IsWindows THEN Request(wk[w].p, heeded) ELSE proc
  /\ wk' = [wk EXCEPT ![w].pc = NextTier(proc', wk[w].p, "terminate")]
  /\ UNCHANGED <<servers, nextId, stop_workers, is_closing, saved, rd,
                 queue, ui, dlg, to_stop, apiStops, net, buf, resolved, launch, view>>

\* if self.process.is_running(): terminate(); wait(timeout=5)
WorkerTerminate(w) ==
  /\ Live
  /\ wk[w].pc = "terminate"
  /\ \E heeded \in BOOLEAN : proc' = Request(wk[w].p, heeded)
  /\ wk' = [wk EXCEPT ![w].pc = NextTier(proc', wk[w].p, "kill")]
  /\ UNCHANGED <<servers, nextId, stop_workers, is_closing, saved, rd,
                 queue, ui, dlg, to_stop, apiStops, net, buf, resolved, launch, view>>

\* except Exception: self.process.kill()
WorkerKill(w) ==
  /\ Live
  /\ wk[w].pc = "kill"
  /\ proc' = Request(wk[w].p, TRUE)
  /\ wk' = [wk EXCEPT ![w].pc = "close"]
  /\ UNCHANGED <<servers, nextId, stop_workers, is_closing, saved, rd,
                 queue, ui, dlg, to_stop, apiStops, net, buf, resolved, launch, view>>

\* self.process.stdout.close()
WorkerClose(w) ==
  /\ Live
  /\ wk[w].pc = "close"
  /\ proc' = [proc EXCEPT ![wk[w].p].closed = TRUE]
  /\ wk' = [wk EXCEPT ![w].pc = "emit"]
  /\ UNCHANGED <<servers, nextId, stop_workers, is_closing, saved, rd,
                 queue, ui, dlg, to_stop, apiStops, net, buf, resolved, launch, view>>

\* finally: self.done.emit(self.server_id)
WorkerEmit(w) ==
  /\ Live
  /\ wk[w].pc = "emit"
  /\ wk' = [wk EXCEPT ![w].pc = "done", ![w].od = "none"]
  /\ queue' = Append(queue, Event("done", wk[w].s, wk[w].p, w, wk[w].od))
  /\ UNCHANGED <<servers, nextId, stop_workers, is_closing, saved, proc, rd,
                 ui, dlg, to_stop, apiStops, net, buf, resolved, launch, view>>

\* --------------------------------------------------------- GUI thread
\* The GUI thread takes posted events whenever an event loop runs: the main
\* loop, the loop of the port question and processEvents in the shutdown
\* wait.
HandleEvent ==
  /\ ui \in {"idle", "dialog", "shutdown_wait"}
  /\ queue # <<>>
  /\ Commit(Dispatch(Cur, Head(queue)))
  /\ queue' = Tail(queue)
  /\ UNCHANGED <<nextId, ui, dlg, to_stop, apiStops, net, buf, resolved, launch, view>>

\* _add_server with valid form input
AddServer ==
  /\ ui = "idle"
  /\ nextId <= MaxServers
  /\ servers' = With(servers, nextId, [ServerRuntime EXCEPT !.private_ip = net])
  /\ saved' = DOMAIN servers'
  /\ nextId' = nextId + 1
  /\ UNCHANGED <<stop_workers, is_closing, proc, rd, wk, queue, ui, dlg,
                 to_stop, apiStops, net, buf, resolved, launch, view>>

\* _start_server up to the port check.  exeOK: the engine executable
\* resolves and exists; busy: port_in_use(effective_port(cfg)).
StartServer(s) ==
  \E exeOK \in BOOLEAN, busy \in BOOLEAN, spawnOK \in BOOLEAN :
    IF start_refused(Cur, s) \/ ~exeOK
      THEN /\ Commit(start_checked(Cur, s, exeOK))
           /\ UNCHANGED <<nextId, queue, ui, dlg, to_stop, apiStops, net, buf, resolved, launch, view>>
      ELSE /\ Len(proc) < MaxStarts
           /\ IF busy
                THEN /\ Commit(start_checked(Cur, s, exeOK))
                     /\ ui' = "dialog"
                     /\ dlg' = s
                     /\ UNCHANGED <<nextId, queue, to_stop, apiStops, net, buf, resolved, launch, view>>
                ELSE /\ Commit(start_spawn(start_checked(Cur, s, exeOK), s, spawnOK))
                     /\ UNCHANGED <<nextId, queue, ui, dlg, to_stop, apiStops, net, buf, resolved, launch, view>>

\* QMessageBox.question returns, _start_server goes on or returns.
PortAnswer ==
  /\ ui = "dialog"
  /\ \E yes \in BOOLEAN, spawnOK \in BOOLEAN :
       Commit(port_answered(Cur, dlg, yes, spawnOK))
  /\ ui' = "idle"
  /\ dlg' = None
  /\ UNCHANGED <<nextId, queue, to_stop, apiStops, net, buf, resolved, launch, view>>

\* _toggle_server_from_button: a click on an enabled start/stop button
Toggle(s) ==
  /\ ui = "idle"
  /\ s \in DOMAIN servers
  /\ servers[s].btn_enabled
  /\ IF servers[s].state = "Stopping"
       THEN UNCHANGED vars
       ELSE IF servers[s].state # "Running"
              THEN StartServer(s)
              ELSE /\ Commit(stop_server(Cur, s, "none"))
                   /\ UNCHANGED <<nextId, queue, ui, dlg, to_stop, apiStops, net, buf, resolved, launch, view>>

\* _delete_server_from_button
Delete(s) ==
  /\ ui = "idle"
  /\ s \in DOMAIN servers
  /\ Commit(delete_server(Cur, s))
  /\ UNCHANGED <<nextId, queue, ui, dlg, to_stop, apiStops, net, buf, resolved, launch, view>>

\* metrics_timer.timeout
MetricsTick ==
  /\ ui \in {"idle", "dialog"}
  /\ \E outcomes \in [SIDS -> {"ok", "cpu_fail", "mem_fail"}], v \in Samples :
       Commit(refresh_metrics(Cur, outcomes, v))
  /\ UNCHANGED <<nextId, queue, ui, dlg, to_stop, apiStops, net, buf, resolved, launch, view>>

\* closeEvent calls _shutdown_all_servers, which returns at once when
\* nothing is Running or Starting and else enters its wait loop.
Close ==
  /\ ui = "idle"
  /\ Commit(shutdown_begin(Cur))
  /\ to_stop' = servers_to_stop(Cur)
  /\ ui' = IF to_stop' = <<>> THEN "returned" ELSE "shutdown_wait"
  /\ UNCHANGED <<nextId, queue, dlg, apiStops, net, buf, resolved, launch, view>>

\* The wait loop ends (all stopped, or the 10 s deadline passed) and
\* _shutdown_all_servers runs to its end.
ShutdownFinish ==
  /\ ui = "shutdown_wait"
  /\ \E expired \in BOOLEAN : expired \/ all_stopped(Cur, to_stop)
  /\ Commit(shutdown_finish(Cur))
  /\ ui' = "returned"
  /\ UNCHANGED <<nextId, queue, dlg, to_stop, apiStops, net, buf, resolved, launch, view>>

\* app.processEvents(): every event posted so far is handled
RECURSIVE Drain(_, _)
Drain(G, q) == IF q = <<>> THEN G ELSE Drain(Dispatch(G, Head(q)), Tail(q))

\* closeEvent after _shutdown_all_servers: processEvents, _save_all,
\* processEvents, and the application exits.
CloseExit ==
  /\ ui = "returned"
  /\ LET G == Drain(Cur, queue)
     IN Commit([G EXCEPT !.saved = DOMAIN G.servers])
  /\ queue' = <<>>
  /\ ui' = "closed"
  /\ UNCHANGED <<nextId, dlg, to_stop, apiStops, net, buf, resolved, launch, view>>

\* stop(id) called directly, in whatever state the entity is
ApiStop(s) ==
  /\ ui = "idle"
  /\ s \in DOMAIN servers
  /\ apiStops < MaxApiStops
  /\ apiStops' = apiStops + 1
  /\ Commit(stop_server(Cur, s, "none"))
  /\ UNCHANGED <<nextId, queue, ui, dlg, to_stop, net, buf, resolved, launch, view>>

\* ------------------------------------------------------ specifications
Threads ==
  \/ \E p \in DOMAIN proc :
       ProcWrite(p) \/ ProcExit(p) \/ ReaderRead(p) \/ ReaderEnd(p) \/ ReaderFinish(p)
  \/ \E w \in DOMAIN wk :
       \/ WorkerSignal(w) \/ WorkerTerminate(w) \/ WorkerKill(w)
       \/ WorkerClose(w) \/ WorkerEmit(w)

\* The lifecycle of the entities: every command comes from a button or from
\* closing the window.  The metrics timer is left to SpecMetrics: it writes
\* cpu_percent and mem_mb only, and no handler reads either.
Next ==
  \/ Threads
  \/ HandleEvent
  \/ AddServer
  \/ \E s \in SIDS : Toggle(s) \/ Delete(s)
  \/ PortAnswer
  \/ Close
  \/ ShutdownFinish
  \/ CloseExit

Spec == Init /\ [][Next]_vars

\* A specification of a single entity: at most ns entities are ever
\* created and at most np children spawned.
InitWithin(ns) == Init /\ nextId <= ns + 1

Within(ns, np) == nextId' <= ns + 1 /\ Len(proc') <= np

\* The supervisor's stop operation called directly as well, one entity.
NextApi ==
  \/ Threads
  \/ HandleEvent
  \/ AddServer /\ Within(SoloServers, SoloStarts)
  \/ \E s \in SIDS : Toggle(s) /\ Within(SoloServers, SoloStarts)
  \/ \E s \in SIDS : Delete(s)
  \/ PortAnswer /\ Within(SoloServers, SoloStarts)
  \/ Close
  \/ ShutdownFinish
  \/ CloseExit
  \/ \E s \in SIDS : ApiStop(s)

SpecApi == InitWithin(SoloServers) /\ [][NextApi]_vars

\* One entity under fair scheduling: every thread that can take a step
\* eventually takes it (the children are under no such obligation), and
\* the GUI thread handles what is posted to it while an event loop runs.
ThreadSteps ==
  \/ \E p \in DOMAIN proc : ReaderRead(p) \/ ReaderEnd(p) \/ ReaderFinish(p)
  \/ \E w \in DOMAIN wk :
       \/ WorkerSignal(w) \/ WorkerTerminate(w) \/ WorkerKill(w)
       \/ WorkerClose(w) \/ WorkerEmit(w)

NextSolo ==
  \/ Threads
  \/ HandleEvent
  \/ AddServer /\ Within(SoloServers, MaxStarts)
  \/ \E s \in SIDS : Toggle(s) \/ Delete(s)
  \/ PortAnswer
  \/ Close
  \/ ShutdownFinish
  \/ CloseExit

SpecLive ==
  /\ InitWithin(SoloServers)
  /\ [][NextSolo]_vars
  /\ WF_vars(ThreadSteps)
  /\ WF_vars(HandleEvent)

\* finally: self.popen.wait() raises, rc = -1.  The loop has ended (end of
\* stream, closed stream or break); the child may still be alive.
ReaderWaitFails(p) ==
  /\ Live
  /\ \/ rd[p].pc = "waiting"
     \/ /\ rd[p].pc = "reading"
        /\ proc[p].closed \/ (~proc[p].alive /\ rd[p].read = proc[p].out)
  /\ rd' = [rd EXCEPT ![p] = ReaderDone]
  /\ queue' = queue \o <<Event("finished", proc[p].s, p, -1, "none"),
                          Event("gone", proc[p].s, p, 0, "none")>>
  /\ UNCHANGED <<servers, nextId, stop_workers, is_closing, saved, proc, wk,
                 ui, dlg, to_stop, apiStops, net, buf, resolved, launch, view>>

\* One entity whose readers may fail to collect the exit status.
NextReader == NextSolo \/ \E p \in DOMAIN proc : ReaderWaitFails(p)

SpecReader == InitWithin(SoloServers) /\ [][NextReader]_vars

\* A child writes a further line to its stdout pipe.
ProcWriteMore(p) ==
  /\ Live
  /\ proc[p].alive /\ ~proc[p].closed /\ proc[p].out < SoloLines
  /\ proc' = [proc EXCEPT ![p].out = @ + 1]
  /\ UNCHANGED <<servers, nextId, stop_workers, is_closing, saved, rd, wk,
                 queue, ui, dlg, to_stop, apiStops, net, buf, resolved, launch, view>>

\* One entity whose children write several lines.
NextLines == NextSolo \/ \E p \in DOMAIN proc : ProcWriteMore(p)

SpecLines == InitWithin(SoloServers) /\ [][NextLines]_vars

\* The texts appended in SpecLog: child output and manager-authored lines
Texts == {"out", "started", "exited"}

\* The number of appends a buffer has seen: its entries are numbered
Appends(b) == IF b = <<>> THEN 0 ELSE b[Len(b)][1]

\* srv.append_log(text, max_lines) on a buffer of capacity LogCap
LogAppend ==
  /\ Appends(buf) < MaxAppends
  /\ \E text \in Texts :
       buf' = append_log(buf, <<Appends(buf) + 1, text>>, LogCap)
  /\ UNCHANGED <<Gui, nextId, queue, ui, dlg, to_stop, apiStops, net, resolved, launch, view>>

\* append_log on its own
SpecLog == Init /\ [][LogAppend]_vars

\* One entity with the metrics timer running.
NextMetrics == NextSolo \/ MetricsTick

SpecMetrics == InitWithin(SoloServers) /\ [][NextMetrics]_vars

\* The answer of core.get_private_ip() changes: the host joins or leaves a
\* network.
NetChange ==
  /\ Live
  /\ net' = IF net = "lan" THEN "127.0.0.1" ELSE "lan"
  /\ UNCHANGED <<Gui, nextId, queue, ui, dlg, to_stop, apiStops, buf, resolved, launch, view>>

\* One entity on a host whose address changes.
NextNet == NextSolo \/ NetChange

\* The command line and the port of a config, for any config
Configure ==
  /\ \E cfg \in ServerConfig : launch' = Launch(cfg)
  /\ UNCHANGED <<Gui, nextId, queue, ui, dlg, to_stop, apiStops, net, buf,
                 resolved, view>>

\* effective_port and build_command on their own
SpecPort == Init /\ [][Configure]_vars

\* A line one character longer goes to the log view
InsertLine ==
  /\ Len(view.line) < MaxChars
  /\ \E c \in Chars : view' = Shown(Append(view.line, c))
  /\ UNCHANGED <<Gui, nextId, queue, ui, dlg, to_stop, apiStops, net, buf,
                 resolved, launch>>

\* classify_log_line on its own
SpecClassify == InitWithin(SoloServers) /\ [][InsertLine]_vars

\* What core.get_public_ip() returns: the address, or "Unknown" on failure
PublicIps == {"wan", "Unknown"}

\* The _resolve_public_ip threads started for entity s so far, at least:
\* one when it was added or restored, one by each start that spawned.
Resolvers(s) ==
  IF s < nextId
    THEN 1 + Cardinality({p \in DOMAIN proc : proc[p].s = s})
    ELSE 0

\* _resolve_public_ip, on its own threading.Thread: get_public_ip(), then
\* srv.public_ip = ip and self._update_row(server_id) if the entity is there
ResolvePublicIp(s) ==
  /\ Live
  /\ resolved[s] < Resolvers(s)
  /\ resolved' = [resolved EXCEPT ![s] = @ + 1]
  /\ \E ip \in PublicIps :
       servers' = IF s \in DOMAIN servers
                    THEN [servers EXCEPT ![s] =
                            update_row(Cur, [@ EXCEPT !.public_ip = ip])]
                    ELSE servers
  /\ UNCHANGED <<nextId, stop_workers, is_closing, saved, proc, rd, wk,
                 queue, ui, dlg, to_stop, apiStops, net, buf, launch, view>>

\* One entity, with the public-IP resolver threads followed.
NextResolve == NextSolo \/ \E s \in SIDS : ResolvePublicIp(s)

SpecResolve == InitWithin(SoloServers) /\ [][NextResolve]_vars

SpecNet == InitWithin(SoloServers) /\ [][NextNet]_vars

\* ------------------------------------------------------------- claims
Active == {"Starting", "Running", "Stopping"}

Terminal == {"Stopped", "Offline"}

\* C1: at every observable point an entity is Starting, Running or
\* Stopping exactly when its process handle is non-null; Offline and
\* Stopped entities hold no handle.
C1_HandleIffActive ==
  \A s \in DOMAIN servers :
    (servers[s].state \in Active) <=> (servers[s].process # None)

\* C8: every step that takes an entity into Stopped, by whatever path,
\* clears its process handle and zeroes cpu and memory in that same step.
C8_StoppedClearsHandle ==
  [][\A s \in DOMAIN servers \cap DOMAIN servers' :
       (servers[s].state # "Stopped" /\ servers'[s].state = "Stopped")
         => /\ servers'[s].process = None
            /\ servers'[s].cpu_percent = 0
            /\ servers'[s].mem_mb = 0]_vars

\* The step handles the completion of a stop of s that carried the
\* deferred delete: the handler finalizes s before it removes it.
FinalizesForDelete(s) ==
  \E i \in 1..(Len(queue) - Len(queue')) :
    /\ queue[i].k = "done"
    /\ queue[i].s = s
    /\ queue[i].od = "delete"

\* C9: an entity leaves the table only from Stopped or Offline: a delete
\* of a Running or Starting entity removes it when its stop has completed,
\* and a delete of a Stopping entity does not remove it before then.
C9_RemovedOnlyWhenTerminal ==
  [][\A s \in DOMAIN servers \ DOMAIN servers' :
       servers[s].state \in Terminal \/ FinalizesForDelete(s)]_vars

\* The entities _shutdown_all_servers set out to stop
Targets == {to_stop[i] : i \in DOMAIN to_stop}

\* C10: when shutdownAll, called with entities that are each Running
\* (or Starting) or Offline, has returned, every entity is Stopped or
\* Offline and holds no process handle, deadline expired or not.
C10_ShutdownLeavesAllStopped ==
  (/\ ui = "returned"
   /\ \A s \in DOMAIN servers : s \in Targets \/ servers[s].state = "Offline")
    => \A s \in DOMAIN servers :
         servers[s].state \in Terminal /\ servers[s].process = None

\* The stop workers of entity s that have not yet emitted done
InFlight(s) == {w \in DOMAIN wk : wk[w].s = s /\ wk[w].pc # "done"}

\* C6: at most one Terminator is in flight per entity, and one in flight
\* is the one stop_workers records for the entity.
C6_OneTerminator ==
  \A s \in SIDS :
    /\ Cardinality(InFlight(s)) <= 1
    /\ \A w \in InFlight(s) : stop_workers[s] = w

\* The reader threads of entity s that still run
LiveReaders(s) == {p \in DOMAIN rd : proc[p].s = s /\ rd[p].pc # "done"}

\* C7: at most one LogReader is attached to an entity, and while the
\* entity is Starting or Running its reader handle is the reader of its
\* current process: no signal of an earlier run's reader detaches it.
C7_OneReader ==
  \A s \in DOMAIN servers :
    /\ Cardinality(LiveReaders(s)) <= 1
    /\ servers[s].state \in {"Starting", "Running"}
         => servers[s].reader = servers[s].process
\* A start of s that finds the process handle of s live
StartOnLive(s) ==
  /\ s \in DOMAIN servers
  /\ servers[s].state \notin {"Running", "Stopping"}
  /\ is_running(Cur, servers[s].process)

\* C3: a start of an entity whose process handle is live is a no-op: no
\* second process and no second reader is spawned for the entity, and the
\* start leaves the entity, its log included, as it found it.
C3_StartOnLiveIsNoOp ==
  [][\A s \in DOMAIN servers :
       is_running(Cur, servers[s].process)
         => /\ \A p \in DOMAIN proc' \ DOMAIN proc : proc'[p].s # s
            /\ (StartOnLive(s) /\ Toggle(s))
                 => UNCHANGED <<servers, proc, rd, wk, queue>>]_vars

\* An entity that was started once is asked to start again: its button
\* still reads as a start while it is Starting and its child lives.
C3_Witness ==
  \E s \in DOMAIN servers :
    /\ StartOnLive(s)
    /\ servers[s].state = "Starting"
    /\ servers[s].btn_enabled
    /\ ui = "idle"
    /\ Len(proc) < MaxStarts

\* C4 as stated: stop(id) on an Offline entity is a no-op: the entity
\* stays Offline, no stop worker is launched, nothing changes.
C4_StopOfflineIsNoOp ==
  [][\A s \in DOMAIN servers :
       (servers[s].state = "Offline" /\ ApiStop(s))
         => UNCHANGED <<servers, stop_workers, proc, rd, wk, queue>>]_vars

\* C4 as the code has it: stop(id) on an Offline entity launches no stop
\* worker and changes no field of the entity but its state, which goes
\* straight through finalize to Stopped.
C4_StopOfflineFinalizes ==
  [][\A s \in DOMAIN servers :
       (servers[s].state = "Offline" /\ ApiStop(s))
         => /\ servers' = [servers EXCEPT ![s].state = "Stopped"]
            /\ UNCHANGED <<stop_workers, proc, rd, wk, queue>>]_vars

\* stop(id) was called on an entity that was never started
C4_Witness ==
  \E s \in DOMAIN servers :
    /\ apiStops > 0
    /\ servers[s].state = "Stopped"
    /\ servers[s].log_lines = <<>>
    /\ \A p \in DOMAIN proc : proc[p].s # s

\* C5: stop(id) on an entity already Stopping is ignored by the stop
\* operation itself: no further stop worker is launched, the registered
\* one is not replaced and the entity does not change.
C5_StopOnStoppingIgnored ==
  [][\A s \in DOMAIN servers :
       (servers[s].state = "Stopping" /\ ApiStop(s))
         => UNCHANGED <<servers, stop_workers, wk>>]_vars

\* The application no longer runs an event loop
Exiting == ui \in {"returned", "closed"}

\* C2: under fair scheduling of the threads and of event delivery, an
\* entity that a stop took to Stopping reaches Stopped for as long as it
\* is in the table and the application runs, whichever tier of the stop
\* worker ends the child, the kill after two ignored requests included.
C2_StopReachesStopped ==
  \A s \in SIDS :
    (s \in DOMAIN servers /\ servers[s].state = "Stopping")
      ~> (\/ s \notin DOMAIN servers
          \/ servers[s].state = "Stopped"
          \/ Exiting)

\* The child ignored CTRL_BREAK and terminate: the stop worker is about to
\* kill it while the entity waits in Stopping.
C2_Witness ==
  \E w \in DOMAIN wk :
    /\ wk[w].pc = "kill"
    /\ proc[wk[w].p].alive
    /\ wk[w].s \in DOMAIN servers
    /\ servers[wk[w].s].state = "Stopping"
    /\ servers[wk[w].s].process = wk[w].p
    /\ ~Exiting
\* A stop of s was launched and its completion is not yet finalized
StopPending(s) == s \in DOMAIN servers /\ stop_workers[s] # None

\* C11: from the moment an entity enters Stopping until its stop is
\* finalized its toggle stays disabled and no process is spawned for it,
\* also when process_finished is handled before the worker's done.
C11_NoToggleUntilFinalized ==
  [][\A s \in DOMAIN servers :
       StopPending(s)
         => /\ ~servers[s].btn_enabled
            /\ \A p \in DOMAIN proc' \ DOMAIN proc : proc'[p].s # s]_vars
\* The events the GUI thread takes off the queue in this step
Consumed == {i \in DOMAIN queue : i <= Len(queue) - Len(queue')}

\* C12: an entity leaves Starting for Running exactly when a line of its
\* attached reader is received, that line is appended to its log, and a
\* line received in any other state is appended without a change of state.
C12_RunningOnFirstLine ==
  [][/\ \A s \in DOMAIN servers \cap DOMAIN servers' :
          (servers[s].state = "Starting" /\ servers'[s].state = "Running")
            => \E i \in Consumed :
                 /\ queue[i].k = "line"
                 /\ queue[i].s = s
                 /\ queue[i].p = servers[s].reader
     /\ (HandleEvent /\ Head(queue).k = "line"
                     /\ Head(queue).s \in DOMAIN servers)
          => LET s == Head(queue).s
             IN /\ servers'[s].log_lines =
                     append_log(servers[s].log_lines, LineText(Head(queue)), MaxLogLines)
                /\ servers'[s].state =
                     IF servers[s].state = "Starting" THEN "Running"
                     ELSE servers[s].state]_vars
\* The events posted to the GUI thread in this step
NewEvents ==
  IF Len(queue') > Len(queue)
    THEN SubSeq(queue', Len(queue) + 1, Len(queue'))
    ELSE <<>>

\* The events of kind k that reader p posts in this step
Posts(p, k) ==
  {i \in DOMAIN NewEvents : NewEvents[i].k = k /\ NewEvents[i].p = p}

\* C13: a reader's run emits process_finished exactly once, as it ends,
\* with the exit code or -1, and emits no line with it or after it: also
\* after zero lines and after stop() was requested mid-stream.
C13_OneFinishedEvent ==
  [][\A p \in DOMAIN rd :
       /\ rd[p].pc = "done"
            => rd'[p].pc = "done" /\ Posts(p, "finished") = {}
                                  /\ Posts(p, "line") = {}
       /\ rd'[p].pc # "done" => Posts(p, "finished") = {}
       /\ (rd[p].pc # "done" /\ rd'[p].pc = "done")
            => /\ Cardinality(Posts(p, "finished")) = 1
               /\ Posts(p, "line") = {}
               /\ \A i \in Posts(p, "finished") :
                    NewEvents[i].x \in {proc[p].rc, -1}]_vars

\* A reader that was told to stop mid-stream has ended, and its
\* process_finished, here with the sentinel, waits in the queue.
C13_Witness ==
  \E i \in DOMAIN queue :
    /\ queue[i].k = "finished"
    /\ queue[i].x = -1
    /\ rd[queue[i].p].pc = "done"
    /\ queue[i].s \in DOMAIN servers
    /\ servers[queue[i].s].state = "Stopping"
\* The positions of the log of s that hold an output line of run p
OutputOf(s, p) ==
  {i \in DOMAIN servers[s].log_lines :
     /\ servers[s].log_lines[i][1] = "out"
     /\ servers[s].log_lines[i][2] = p}

\* C14: the output lines of one run stand in an entity's log in the order
\* the child wrote them, each once: none is reordered or repeated.
C14_LinesInOrder ==
  \A s \in DOMAIN servers : \A p \in DOMAIN proc :
    \A i, j \in OutputOf(s, p) :
      i < j => servers[s].log_lines[i][3] < servers[s].log_lines[j][3]

\* Two lines of one run have reached the log
C14_Witness ==
  \E s \in DOMAIN servers : \E p \in DOMAIN proc :
    \E i, j \in OutputOf(s, p) :
      /\ i < j
      /\ servers[s].log_lines[i][3] = 1
      /\ servers[s].log_lines[j][3] = 2
\* C15: a log buffer never holds more entries than its limit (8000 in the
\* program), and an append to a full buffer drops exactly the oldest entry
\* and keeps the others, then the new one, in their order.
C15_LogBounded ==
  [][LogAppend
          => /\ Len(buf') <= LogCap
             /\ \E text \in Texts :
                  LET e == <<Appends(buf) + 1, text>>
                  IN buf' = IF Len(buf) < LogCap
                              THEN Append(buf, e)
                              ELSE Append(Tail(buf), e)]_vars

\* A full buffer has been appended to: its oldest entries are gone
C15_Witness ==
  /\ Len(buf) = LogCap
  /\ buf[1][1] > 1
  /\ \A i \in 1..(LogCap - 1) : buf[i + 1][1] = buf[i][1] + 1
\* C16: a metrics tick leaves the CPU and memory fields of every entity that
\* is not Running at zero, whatever the sample would have been, and the
\* values shown in the row of an entity that is not Running are zero.
C16_ZeroUnlessRunning ==
  /\ [](\A s \in DOMAIN servers :
          servers[s].state # "Running"
            => servers[s].row_cpu = 0 /\ servers[s].row_mem = 0)
  /\ [][MetricsTick
          => \A s \in DOMAIN servers :
               servers[s].state # "Running"
                 => /\ servers'[s].cpu_percent = 0
                    /\ servers'[s].mem_mb = 0]_vars

\* An entity that was sampled while Running has left Running with its last
\* sample still in its fields, and its row shows zero.
C16_Witness ==
  \E s \in DOMAIN servers :
    /\ servers[s].state \in {"Stopping", "Stopped"}
    /\ servers[s].cpu_percent # 0
    /\ servers[s].mem_mb # 0
    /\ servers[s].row_cpu = 0
    /\ servers[s].row_mem = 0
\* The fields of an entity that a metrics tick is not to touch
Lifecycle(srv) ==
  <<srv.state, srv.process, srv.ps, srv.reader, srv.log_lines,
    srv.private_ip, srv.last_started_ts, srv.btn_enabled>>

\* C17: a metrics tick changes nothing but the CPU and memory fields (and
\* the cells showing them): every entity keeps its state, process handle,
\* reader handle and log, no entity appears or goes, and nothing else of the
\* program changes; a reading that fails leaves its field, and the fields
\* read after it, at their last values.
C17_TickTouchesOnlyMetrics ==
  /\ [][MetricsTick
          => /\ DOMAIN servers' = DOMAIN servers
             /\ \A s \in DOMAIN servers :
                  Lifecycle(servers'[s]) = Lifecycle(servers[s])
             /\ UNCHANGED <<stop_workers, is_closing, saved, proc, rd, wk, queue>>]_vars
  /\ [](\A outcomes \in [SIDS -> {"ok", "cpu_fail", "mem_fail"}], v \in Samples :
          LET G2 == refresh_metrics(Cur, outcomes, v)
          IN \A s \in DOMAIN servers :
               servers[s].state = "Running"
                 => /\ outcomes[s] = "cpu_fail"
                         => /\ G2.servers[s].cpu_percent = servers[s].cpu_percent
                            /\ G2.servers[s].mem_mb = servers[s].mem_mb
                    /\ outcomes[s] = "mem_fail"
                         => G2.servers[s].mem_mb = servers[s].mem_mb)

\* A tick whose memory reading failed has acted on a Running entity: the
\* CPU field holds a sample and the memory field its earlier value.
C17_Witness ==
  \E s \in DOMAIN servers :
    /\ servers[s].state = "Running"
    /\ servers[s].process # None
    /\ servers[s].cpu_percent # 0
    /\ servers[s].mem_mb = 0
\* The done events that stop worker w posts in this step
DonePosts(w) ==
  {i \in DOMAIN NewEvents : NewEvents[i].k = "done" /\ NewEvents[i].x = w}

\* C18: a stop worker's run emits done exactly once, as its last step and
\* for its own entity, and gets there only through the close of the
\* child's output stream, whichever tier ended the child and also when
\* the child was found gone before or between the tiers.
C18_OneDoneAfterClose ==
  [][/\ \A w \in DOMAIN wk' \ DOMAIN wk :
          wk'[w].pc = "signal" /\ DonePosts(w) = {}
     /\ \A w \in DOMAIN wk :
          /\ wk[w].pc = "done"
               => wk'[w].pc = "done" /\ DonePosts(w) = {}
          /\ wk'[w].pc # "done" => DonePosts(w) = {}
          /\ (wk[w].pc # "done" /\ wk'[w].pc = "done")
               => /\ wk[w].pc = "emit"
                  /\ proc[wk[w].p].closed
                  /\ Cardinality(DonePosts(w)) = 1
                  /\ \A i \in DonePosts(w) : NewEvents[i].s = wk[w].s
          /\ (wk[w].pc # "emit" /\ wk'[w].pc = "emit")
               => wk[w].pc = "close" /\ proc'[wk[w].p].closed
     /\ \A p \in DOMAIN proc : proc[p].closed => proc'[p].closed]_vars

\* A child exited by itself (exit code 0 in its process_finished), no tier
\* having ended it, and the stop worker sent after it has emitted done.
C18_Witness ==
  \E i, j \in DOMAIN queue :
    /\ queue[i].k = "finished"
    /\ queue[i].x = 0
    /\ queue[j].k = "done"
    /\ queue[j].p = queue[i].p
    /\ wk[queue[j].x].pc = "done"
    /\ proc[queue[j].p].closed
\* C19: the stop workers of different entities do not touch each other: a
\* step of one worker changes no other worker, and the handling of a
\* worker's done event for entity a leaves every other entity's record,
\* its process, its registered stop worker and every worker as they were.
C19_TerminatorsIndependent ==
  [][/\ \A w1, w2 \in DOMAIN wk :
          (w1 # w2 /\ wk'[w1] # wk[w1]) => wk'[w2] = wk[w2]
     /\ (HandleEvent /\ Head(queue).k = "done")
          => LET a == Head(queue).s
             IN /\ wk' = wk
                /\ proc' = proc
                /\ \A b \in DOMAIN servers \ {a} :
                     /\ b \in DOMAIN servers'
                     /\ servers'[b] = servers[b]
                     /\ stop_workers'[b] = stop_workers[b]]_vars

\* The stop of one entity began after the stop of another, and it has
\* been finalized while the other entity's worker is still at its tiers.
C19_Witness ==
  \E wa, wb \in DOMAIN wk :
    /\ wa > wb
    /\ wk[wa].s # wk[wb].s
    /\ wk[wa].pc = "done"
    /\ wk[wb].pc \in {"signal", "terminate", "kill"}
    /\ wk[wa].s \in DOMAIN servers
    /\ wk[wb].s \in DOMAIN servers
    /\ servers[wk[wa].s].state = "Stopped"
    /\ stop_workers[wk[wa].s] = None
    /\ servers[wk[wb].s].state = "Stopping"
    /\ stop_workers[wk[wb].s] = wb
\* C20: a start that does not find the engine executable changes nothing:
\* the entity's state, process handle, reader handle, address, start
\* timestamp and log, every other entity, the registries, the processes
\* and the threads are as they were, so no process was spawned.
C20_NotFoundChangesNothing ==
  \A s \in DOMAIN servers : start_checked(Cur, s, FALSE) = Cur

\* An entity that ran before can be started, and the address of the host
\* is no longer the one the entity holds: a start that went on to the
\* refresh would show.
C20_Witness ==
  \E s \in DOMAIN servers :
    /\ ui = "idle"
    /\ servers[s].btn_enabled
    /\ servers[s].state = "Stopped"
    /\ ~start_refused(Cur, s)
    /\ servers[s].last_started_ts # 0
    /\ servers[s].log_lines # <<>>
    /\ servers[s].private_ip # net
\* C21: a start from Offline or Stopped whose spawn fails leaves the
\* entity Offline, with no process handle and no reader attached.
C21_SpawnFailedLeavesOffline ==
  \A s \in DOMAIN servers :
    (servers[s].state \in {"Offline", "Stopped"} /\ ~start_refused(Cur, s))
      => LET G2 == start_spawn(start_checked(Cur, s, TRUE), s, FALSE)
         IN /\ G2.servers[s].state = "Offline"
            /\ G2.servers[s].process = None
            /\ G2.servers[s].reader = None
\* C22: a busy port only asks.  The step that opens the port question
\* spawns nothing and leaves every state and process handle as it was; a
\* process is spawned only by a start that asked nothing or by the answer
\* to the question; answered with no, the start changes nothing; answered
\* with yes, it spawns and the entity, if still in the table, is Starting
\* on the new process.
C22_BusyPortOnlyAsks ==
  /\ [](ui = "dialog" =>
          /\ \A ok \in BOOLEAN : port_answered(Cur, dlg, FALSE, ok) = Cur
          /\ LET G2 == port_answered(Cur, dlg, TRUE, TRUE)
             IN /\ Len(G2.proc) = Len(proc) + 1
                /\ G2.proc[Len(G2.proc)].alive
                /\ Has(Cur, dlg)
                     => /\ G2.servers[dlg].state = "Starting"
                        /\ G2.servers[dlg].process = Len(G2.proc))
  /\ [][/\ (ui = "idle" /\ ui' = "dialog")
             => /\ proc' = proc
                /\ dlg' \in DOMAIN servers
                /\ DOMAIN servers' = DOMAIN servers
                /\ \A s \in DOMAIN servers :
                     /\ servers'[s].state = servers[s].state
                     /\ servers'[s].process = servers[s].process
        /\ Len(proc') > Len(proc)
             => \/ ui = "dialog" /\ ui' = "idle"
                \/ ui = "idle" /\ ui' = "idle"]_vars

\* The port question is open for an entity that ran before and is Stopped.
C22_Witness ==
  /\ ui = "dialog"
  /\ dlg \in DOMAIN servers
  /\ servers[dlg].state = "Stopped"
  /\ servers[dlg].last_started_ts # 0
  /\ ~is_running(Cur, servers[dlg].process)
\* The steps taken by a thread other than the GUI thread, or by a child
Background == Threads \/ \E s \in SIDS : ResolvePublicIp(s)

\* C23: the record of an entity is written by the GUI thread only, as it
\* handles an event: no step of a reader, a stop worker or a public-IP
\* resolver changes a field of any record.
C23_SingleWriter ==
  [][Background => servers' = servers]_vars
\* The ports that the port flags of a command line name
CarriedPorts(cmd) == {cmd[i].val[1] : i \in Matches(cmd)}

\* C24: the effective port is a port named by a -Port= or -NetPort= token
\* of the custom parameters when there is one, whatever the configured
\* port, and the configured port otherwise; and the command line built
\* for the child names that port.
C24_EffectivePortIsCarried ==
  LET given == CarriedPorts(launch.cfg.custom_params)
  IN /\ given # {} => launch.port \in given
     /\ given = {} => launch.port = launch.cfg.port
     /\ launch.port \in CarriedPorts(launch.cmd)
\* C25: every line gets one of the severities info, warning and error:
\* error when it carries an error marker, warning when it carries a
\* warning marker and no error marker, info otherwise; "x: Error: x" is
\* error and "x: Warning: x" is warning.
C25_OneSeverity ==
  LET low == Lower(view.line)
  IN /\ view.severity \in {"info", "warning", "error"}
     /\ view.severity = "error" <=> Marked(low, "error")
     /\ view.severity = "warning"
          <=> (Marked(low, "warning") /\ ~Marked(low, "error"))
     /\ view.severity = "info"
          <=> (~Marked(low, "warning") /\ ~Marked(low, "error"))
     /\ view.line = <<"x", ":", " ", "Error", ":", " ", "x">>
          => view.severity = "error"
     /\ view.line = <<"x", ":", " ", "Warning", ":", " ", "x">>
          => view.severity = "warning"

\* A line that starts with a warning marker and goes on with an error
\* marker has been classified, as error.
C25_Witness ==
  /\ StartsWith(view.line, <<"Warning", ":", " ", "Error", ":", " ">>)
  /\ view.severity = "error"
\* C26: once an entity has been added or removed, at once or when its
\* stop was finalized, the config list last handed to Store.save is the
\* list of the entities in the table.
C26_SavedIsLiveSet == saved = DOMAIN servers

\* An entity is gone whose stop worker has emitted done and whose done
\* event has been handled, and another entity is still in the table.
C26_Witness ==
  /\ DOMAIN servers # {}
  /\ \E w \in DOMAIN wk :
       /\ wk[w].pc = "done"
       /\ wk[w].s \notin DOMAIN servers
       /\ \A i \in DOMAIN queue : ~(queue[i].k = "done" /\ queue[i].x = w)
\* C27: every child that is alive is the process of an entity in the table
\* whose state is Starting, Running or Stopping, and the handling of a
\* done or process_finished event of an earlier run neither sets the
\* state of the entity's new run to Stopped nor clears its new handle.
C27_AliveChildIsOwned ==
  /\ [](\A p \in DOMAIN proc :
          proc[p].alive
            => \E s \in DOMAIN servers :
                 /\ servers[s].process = p
                 /\ servers[s].state \in {"Starting", "Running", "Stopping"})
  /\ [][(HandleEvent /\ Head(queue).k \in {"done", "finished"}
                     /\ Head(queue).s \in DOMAIN servers
                     /\ servers[Head(queue).s].process # None
                     /\ servers[Head(queue).s].process # Head(queue).p)
          => LET s == Head(queue).s
             IN /\ servers'[s].state = servers[s].state
                /\ servers'[s].process = servers[s].process]_vars
\* C28: when _shutdown_all_servers has returned, no child is alive, no
\* entity has a reader attached and no stop worker is registered.
C28_ShutdownLeavesNothing ==
  ui = "returned"
    => /\ \A p \in DOMAIN proc : ~proc[p].alive
       /\ \A s \in DOMAIN servers : servers[s].reader = None
       /\ \A s \in SIDS : stop_workers[s] = None
\* The done event of worker w has been posted and handled
Delivered(w) ==
  /\ w \in DOMAIN wk
  /\ wk[w].pc = "done"
  /\ \A i \in DOMAIN queue : ~(queue[i].k = "done" /\ queue[i].x = w)

\* C29: the on_done of a stop is invoked exactly once and after the stop
\* was finalized.  It travels with the done event of the worker of that
\* stop and with nothing else; when the event is handled the entity is
\* first finalized (Stopped, no handle) or found gone, then on_done runs;
\* a stop of an entity without a process finalizes and runs on_done
\* within the call; and while the application runs the event of every
\* worker that holds an on_done is handled in the end.
C29_OnDoneOnce ==
  /\ [][/\ \A i \in DOMAIN NewEvents :
             NewEvents[i].od # "none"
               => /\ NewEvents[i].k = "done"
                  /\ wk[NewEvents[i].x].pc = "emit"
                  /\ wk[NewEvents[i].x].od = NewEvents[i].od
                  /\ wk'[NewEvents[i].x].od = "none"
        /\ \A w \in DOMAIN wk :
             (wk[w].od # "none" /\ wk'[w].od = "none")
               => \E i \in DonePosts(w) : NewEvents[i].od = wk[w].od
        /\ (HandleEvent /\ Head(queue).k = "done" /\ Head(queue).od = "delete")
             => LET s == Head(queue).s
                    G1 == stop_finalize(Cur, s, "none")
                IN /\ Has(G1, s) => /\ G1.servers[s].state = "Stopped"
                                    /\ G1.servers[s].process = None
                   /\ servers' = on_done(G1, s, "delete").servers
                   /\ s \notin DOMAIN servers']_vars
  /\ [](\A s \in DOMAIN servers :
          servers[s].process = None
            => LET G1 == stop_server(Cur, s, "none")
               IN /\ G1.servers[s].state = "Stopped"
                  /\ stop_server(Cur, s, "delete") = on_done(G1, s, "delete"))
  /\ \A w \in 1..MaxStarts :
       (w \in DOMAIN wk /\ wk[w].od = "delete")
         ~> (Exiting \/ Delivered(w))

\* The worker of a stop-then-delete has emitted done: the event, with the
\* on_done it carries, is the next to be handled and the entity is still
\* in the table, Stopping.
C29_Witness ==
  /\ queue # <<>>
  /\ Head(queue).k = "done"
  /\ Head(queue).od = "delete"
  /\ Head(queue).s \in DOMAIN servers
  /\ servers[Head(queue).s].state = "Stopping"
  /\ ~Exiting
\* The positions of the Started lines in the log of s
StartedLines(s) ==
  {i \in DOMAIN servers[s].log_lines : servers[s].log_lines[i][1] = "started"}

\* The number of run p among the runs of its entity
RunNo(p) == Cardinality({q \in 1..p : proc[q].s = proc[p].s})

\* C30: in the log of an entity every output line of a run comes after
\* the Started line of that run; the events of a run reach the GUI thread
\* with every line before the process_finished, each is appended at the
\* end of the log when it is handled, and once the process_finished of a
\* run was handled no line of that run is left to come: the exit line of
\* a run comes after every line of that run that was delivered.
C30_StartedFirstExitedLast ==
  /\ [](\A s \in DOMAIN servers : \A p \in DOMAIN proc :
          \A j \in OutputOf(s, p) :
            \E i \in StartedLines(s) :
              /\ i < j
              /\ Cardinality({x \in StartedLines(s) : x <= i}) = RunNo(p))
  /\ [](\A i, j \in DOMAIN queue :
          (/\ queue[i].k = "finished"
           /\ queue[j].k = "line"
           /\ queue[j].p = queue[i].p) => j < i)
  /\ [](\A p \in DOMAIN rd :
          (/\ rd[p].pc = "done"
           /\ \A i \in DOMAIN queue : ~(queue[i].k = "finished" /\ queue[i].p = p))
            => \A j \in DOMAIN queue : ~(queue[j].k = "line" /\ queue[j].p = p))
  /\ [][(HandleEvent /\ Head(queue).k \in {"line", "finished"}
                     /\ Head(queue).s \in DOMAIN servers)
          => LET s == Head(queue).s
                 e == Head(queue)
             IN servers'[s].log_lines =
                  Append(servers[s].log_lines,
                         IF e.k = "line" THEN LineText(e) ELSE <<"exited", e.x>>)]_vars

\* The log of an entity holds a first run from its Started line over an
\* output line to its exit line, and then an output line of a second run.
C30_Witness ==
  \E s \in DOMAIN servers :
    \E i, j, k, l \in DOMAIN servers[s].log_lines :
      /\ i < j /\ j < k /\ k < l
      /\ servers[s].log_lines[i][1] = "started"
      /\ servers[s].log_lines[j][1] = "out"
      /\ servers[s].log_lines[j][2] = 1
      /\ servers[s].log_lines[k][1] = "exited"
      /\ servers[s].log_lines[l][1] = "out"
      /\ servers[s].log_lines[l][2] = 2
\* C31, the command: a toggle creates a stop worker only for a Running
\* entity, spawns only for an entity that is neither Running nor Stopping,
\* and changes nothing for a Stopping entity and for a Starting entity
\* whose process is alive.
ToggleIssues ==
  \A s \in SIDS :
    Toggle(s)
      => /\ Len(wk') > Len(wk) => servers[s].state = "Running"
         /\ servers[s].state = "Running"
              => /\ servers'[s].state \in {"Stopping", "Stopped"}
                 /\ proc' = proc
         /\ Len(proc') > Len(proc)
              => servers[s].state \notin {"Running", "Stopping"}
         /\ servers[s].state = "Stopping" => UNCHANGED vars
         /\ (servers[s].state = "Starting"
               /\ is_running(Cur, servers[s].process)) => UNCHANGED vars

\* C31, the consequence: a Starting entity leaves Starting only when a
\* line or a process_finished of the entity is handled, when it is
\* deleted (at once, or stopped first and removed later), or in the
\* shutdown.
LeavesStarting ==
  \A s \in DOMAIN servers :
    (/\ servers[s].state = "Starting"
     /\ s \in DOMAIN servers' => servers'[s].state # "Starting")
      => \/ /\ HandleEvent
            /\ Head(queue).k \in {"line", "finished"}
            /\ Head(queue).s = s
         \/ Delete(s)
         \/ s \notin DOMAIN servers'
         \/ Close \/ ShutdownFinish \/ CloseExit

\* C31: the toggle stops a Running entity, does nothing on a Stopping one
\* and starts in every other state, a toggle on a Starting entity with a
\* live process changes nothing, and a Starting entity leaves Starting
\* only by output, by exiting, by being deleted or by the shutdown.
C31_ToggleSemantics == [][ToggleIssues /\ LeavesStarting]_vars
====
